---- MODULE Spec2Model ----
(***************************************************************************)
(* Model of the PIR motion sensor driver, Application/Sensor/pir.c.        *)
(*                                                                         *)
(* Two contexts execute the driver.  The normal context runs pirInit once  *)
(* and then, driven by the scheduler, pirPoll and pirResponse, one at a    *)
(* time.  The interrupt context runs pirISR, which preempts the normal     *)
(* context between any two statements and runs to completion before the    *)
(* normal context resumes.  mainPc and isrPc are the two positions, named  *)
(* by the source line that executes next.                                  *)
(*                                                                         *)
(* The scheduler, the gateway messaging layer and the GPIO HAL are not     *)
(* part of pir.c.  Their effect is modelled from the interface             *)
(* the driver consumes; the calls the driver makes are recorded in         *)
(* sentNow, schedNow and isrNow.                                           *)
(***************************************************************************)
EXTENDS Integers, Sequences, FiniteSets, TLC

\* ------------------------------------------------------------------ bounds

\* Wake interrupts serviced in one behaviour.
MaxEvents == 3

\* ------------------------------------------------------------- constants

STATE_MOTION_CHECK == 0

REQUESTID_TEMPLATE == 1

SENSORDATA_NOTEFILE == "*#motion.qo"

\* Scheduler states declared in sensor.h; pirPoll's switch needs them
\* distinct from each other and from STATE_MOTION_CHECK.
STATE_ACTIVATED == -1

STATE_DEACTIVATED == -2

\* Pin masks of main.h: one bit each of the uint16_t the dispatcher passes.
PIR_DIRECT_LINK_Pin == 4

OTHER_Pin == 8

PIR_DIRECT_LINK_IT_PRIORITY == "PIR_DIRECT_LINK_IT_PRIORITY"

TINT32 == "TINT32"

\* -------------------------------------------------------- bit arithmetic

RECURSIVE Pow2(_)
Pow2(n) == IF n = 0 THEN 1 ELSE 2 * Pow2(n - 1)

\* a & b on unsigned values.
RECURSIVE BitAnd(_, _)
BitAnd(a, b) ==
    IF a = 0 \/ b = 0 THEN 0
    ELSE (IF a % 2 = 1 /\ b % 2 = 1 THEN 1 ELSE 0) + 2 * BitAnd(a \div 2, b \div 2)

\* a | b on unsigned values.
RECURSIVE BitOr(_, _)
BitOr(a, b) ==
    IF a = 0 THEN b
    ELSE IF b = 0 THEN a
    ELSE (IF a % 2 = 1 \/ b % 2 = 1 THEN 1 ELSE 0) + 2 * BitOr(a \div 2, b \div 2)

\* a << n.  Every shift of pir.c moves a value masked to at most 8 bits by at
\* most 24 places, so no bit leaves the 32-bit word and no reduction applies.
Shl(a, n) == a * Pow2(n)

\* ------------------------------------------------------------------ state

VARIABLES
    templateRegistered,     \* static bool templateRegistered
    motionEvents,           \* static uint32_t motionEvents
    mainPc,                 \* normal context: the line that executes next
    pollState,              \* pirPoll's argument state
    count,                  \* addNote's local count
    configurationRegister,  \* pirInit's local configurationRegister
    i,                      \* pirInit's loop variable
    fields,                 \* pirInit's locals threshold ... pulseDetectionMode
    isrPc,                  \* interrupt context: the line that executes next
    isrPins,                \* pirISR's argument pins
    isrTick,                \* flips at every call of pirISR
    serialIn,               \* PIR_SERIAL_IN pin configuration
    serialLog,              \* levels written to PIR_SERIAL_IN, in order
    directLink,             \* PIR_DIRECT_LINK pin configuration
    nvic,                   \* PIR_DIRECT_LINK_EXTI_IRQn priority and enable
    schedState,             \* what schedGetState reports
    completion,             \* states of a pending schedSetCompletionState
    awaiting,               \* a sent request expects a response
    call,                   \* current or most recent pirPoll/pirResponse call
    sentNow,                \* requests handed to the gateway by that call
    schedNow,               \* scheduler requests made by that call
    allocFailed,            \* an allocation failed in that call
    isrSinceEntry,          \* wake interrupts serviced since that call began
    isrNow,                 \* scheduler requests of the current or last pirISR
    serviced,               \* wake interrupts serviced by pirISR
    sentSum,                \* sum of the counts of the reports sent
    sinceSend,              \* wake interrupts serviced since the last report was sent
    sinceRead,              \* wake interrupts serviced since addNote last read the counter
    sinceZero,              \* wake interrupts serviced since addNote last zeroed the counter
    readTally,              \* sinceRead as it was when addNote read the counter
    lastReport              \* the last report: its count and the tallies when sent

driverVars == <<templateRegistered, motionEvents>>

localVars == <<pollState, count, configurationRegister, i, fields>>

pinVars == <<serialIn, serialLog, directLink, nvic>>

schedVars == <<schedState, completion, awaiting>>

callVars == <<call, sentNow, schedNow, allocFailed, isrSinceEntry>>

tallyVars == <<serviced, sentSum, sinceSend, sinceRead, sinceZero, readTally,
               lastReport>>

vars == <<driverVars, mainPc, localVars, isrPc, isrPins, isrTick, pinVars, schedVars,
          callVars, isrNow, tallyVars>>

NoCompletion == <<>>

NoCall == [op |-> "none", tick |-> 0]

NoReport == [count |-> 0, sinceSend |-> 0, sinceRead |-> 0, n |-> 0]

PinReset == [mode |-> "RESET", pull |-> "RESET", speed |-> "RESET", out |-> 0]

InitState ==
    /\ templateRegistered = FALSE
    /\ motionEvents = 0
    /\ mainPc = "L32"
    /\ pollState = STATE_DEACTIVATED
    /\ count = 0
    /\ configurationRegister = 0
    /\ i = 0
    /\ isrPc = "idle"
    /\ isrPins = 0
    /\ isrTick = 0
    /\ serialIn = PinReset
    /\ serialLog = <<>>
    /\ directLink = PinReset
    /\ nvic = [priority |-> "RESET", enabled |-> FALSE]
    /\ schedState = STATE_DEACTIVATED
    /\ completion = NoCompletion
    /\ awaiting = FALSE
    /\ call = NoCall
    /\ sentNow = <<>>
    /\ schedNow = <<>>
    /\ allocFailed = FALSE
    /\ isrSinceEntry = 0
    /\ isrNow = <<>>
    /\ serviced = 0
    /\ sentSum = 0
    /\ sinceSend = 0
    /\ sinceRead = 0
    /\ sinceZero = 0
    /\ readTally = 0
    /\ lastReport = NoReport

\* ------------------------------------------------------------ GPIO HAL

\* HAL_GPIO_Init(port, &init): mode, pull and speed of the pin.
HAL_GPIO_Init(pin, mode, pull, speed) ==
    [mode |-> mode, pull |-> pull, speed |-> speed, out |-> pin.out]

\* HAL_GPIO_WritePin(port, pin, level).
HAL_GPIO_WritePin(pin, level) == [pin EXCEPT !.out = level]

GPIO_PIN_RESET == 0

GPIO_PIN_SET == 1

\* -------------------------------------------------------------- pirInit

threshold == 24

blindTime == 2

pulseCounter == 2

windowTime == 3

operationModes == 2

signalSource == 0

reserved1 == 2

hpfCutoff == 0

reserved2 == 0

pulseDetectionMode == 0

\* The initialisers of lines 61-139.
FixedFields ==
    [threshold |-> threshold, blindTime |-> blindTime, pulseCounter |-> pulseCounter,
     windowTime |-> windowTime, operationModes |-> operationModes,
     signalSource |-> signalSource, reserved1 |-> reserved1, hpfCutoff |-> hpfCutoff,
     reserved2 |-> reserved2, pulseDetectionMode |-> pulseDetectionMode]

\* The program as built: the field locals hold their initialisers.
Init == InitState /\ fields = FixedFields

\* The configuration word with the blind time shifted by 12 instead of 13.
ConfigWord_BlindTimeAt12(th, bt, pc, wt, om, ss, r1, hpf, r2, pdm) ==
    LET c1 == BitOr(0, Shl(BitAnd(th, 255), 17))
        c2 == BitOr(c1, Shl(BitAnd(bt, 15), 12))
        c3 == BitOr(c2, Shl(BitAnd(pc, 3), 11))
        c4 == BitOr(c3, Shl(BitAnd(wt, 3), 9))
        c5 == BitOr(c4, Shl(BitAnd(om, 3), 7))
        c6 == BitOr(c5, Shl(BitAnd(ss, 3), 5))
        c7 == BitOr(c6, Shl(BitAnd(r1, 3), 3))
        c8 == BitOr(c7, Shl(BitAnd(hpf, 1), 2))
        c9 == BitOr(c8, Shl(BitAnd(r2, 1), 1))
    IN  BitOr(c9, Shl(BitAnd(pdm, 1), 0))

\* The configuration word as lines 52-140 assemble it.
ConfigWord(th, bt, pc, wt, om, ss, r1, hpf, r2, pdm) ==
    LET c0 == 0
        c1 == BitOr(c0, Shl(BitAnd(th, 255), 17))
        c2 == BitOr(c1, Shl(BitAnd(bt, 15), 13))
        c3 == BitOr(c2, Shl(BitAnd(pc, 3), 11))
        c4 == BitOr(c3, Shl(BitAnd(wt, 3), 9))
        c5 == BitOr(c4, Shl(BitAnd(om, 3), 7))
        c6 == BitOr(c5, Shl(BitAnd(ss, 3), 5))
        c7 == BitOr(c6, Shl(BitAnd(r1, 3), 3))
        c8 == BitOr(c7, Shl(BitAnd(hpf, 1), 2))
        c9 == BitOr(c8, Shl(BitAnd(r2, 1), 1))
    IN  BitOr(c9, Shl(BitAnd(pdm, 1), 0))

\* The data level taken from the other end of the word: bit 24 - i.
DataLevel_LsbFirst(reg, k) ==
    IF BitAnd(reg, Shl(1, 24 - k)) # 0 THEN GPIO_PIN_SET ELSE GPIO_PIN_RESET

\* (configurationRegister & (1<<i)) != 0 ? GPIO_PIN_SET : GPIO_PIN_RESET
DataLevel(reg, k) ==
    IF BitAnd(reg, Shl(1, k)) # 0 THEN GPIO_PIN_SET ELSE GPIO_PIN_RESET

\* What a step of pirInit leaves alone besides the pins and its locals.
InitFrame ==
    UNCHANGED <<driverVars, pollState, count, fields, isrPc, isrPins, isrTick,
                schedVars, callVars, isrNow, tallyVars>>

\* A write of level to the serial-in pin.
SerialWrite(level) ==
    /\ serialIn' = HAL_GPIO_WritePin(serialIn, level)
    /\ serialLog' = Append(serialLog, level)

\* Lines 36-41: the serial-in pin becomes a push-pull output.
pirInit_L41 ==
    /\ mainPc = "L32" /\ isrPc = "idle"
    /\ serialIn' = HAL_GPIO_Init(serialIn, "GPIO_MODE_OUTPUT_PP", "GPIO_NOPULL",
                                 "GPIO_SPEED_FREQ_LOW")
    /\ mainPc' = "L42"
    /\ UNCHANGED <<serialLog, directLink, nvic, configurationRegister, i>>
    /\ InitFrame

\* Line 42: the serial-in line is driven low.
pirInit_L42 ==
    /\ mainPc = "L42" /\ isrPc = "idle"
    /\ SerialWrite(GPIO_PIN_RESET)
    /\ mainPc' = "L47"
    /\ UNCHANGED <<directLink, nvic, configurationRegister, i>>
    /\ InitFrame

\* Lines 43-47: the direct-link pin becomes a pulled-down input.
pirInit_L47 ==
    /\ mainPc = "L47" /\ isrPc = "idle"
    /\ directLink' = HAL_GPIO_Init(directLink, "GPIO_MODE_INPUT", "GPIO_PULLDOWN",
                                   "GPIO_SPEED_FREQ_HIGH")
    /\ mainPc' = "L48"
    /\ UNCHANGED <<serialIn, serialLog, nvic, configurationRegister, i>>
    /\ InitFrame

\* Line 48: HAL_NVIC_SetPriority.
pirInit_L48 ==
    /\ mainPc = "L48" /\ isrPc = "idle"
    /\ nvic' = [nvic EXCEPT !.priority = PIR_DIRECT_LINK_IT_PRIORITY]
    /\ mainPc' = "L49"
    /\ UNCHANGED <<serialIn, serialLog, directLink, configurationRegister, i>>
    /\ InitFrame

\* Line 49: HAL_NVIC_EnableIRQ.
pirInit_L49 ==
    /\ mainPc = "L49" /\ isrPc = "idle"
    /\ nvic' = [nvic EXCEPT !.enabled = TRUE]
    /\ mainPc' = "L52"
    /\ UNCHANGED <<serialIn, serialLog, directLink, configurationRegister, i>>
    /\ InitFrame

\* Lines 52-140: the configuration word of the field locals.
pirInit_L52 ==
    /\ mainPc = "L52" /\ isrPc = "idle"
    /\ configurationRegister' =
         ConfigWord(fields.threshold, fields.blindTime, fields.pulseCounter,
                    fields.windowTime, fields.operationModes, fields.signalSource,
                    fields.reserved1, fields.hpfCutoff, fields.reserved2,
                    fields.pulseDetectionMode)
    /\ mainPc' = "L144"
    /\ UNCHANGED <<pinVars, i>>
    /\ InitFrame

\* Line 144: for (int i=24; i>=0; ...).
pirInit_L144 ==
    /\ mainPc = "L144" /\ isrPc = "idle"
    /\ i' = 24
    /\ mainPc' = IF i' >= 0 THEN "L145" ELSE "L153"
    /\ UNCHANGED <<pinVars, configurationRegister>>
    /\ InitFrame

\* Line 145: the frame starts low.
pirInit_L145 ==
    /\ mainPc = "L145" /\ isrPc = "idle"
    /\ SerialWrite(GPIO_PIN_RESET)
    /\ mainPc' = "L147"
    /\ UNCHANGED <<directLink, nvic, configurationRegister, i>>
    /\ InitFrame

\* Line 147: then high.
pirInit_L147 ==
    /\ mainPc = "L147" /\ isrPc = "idle"
    /\ SerialWrite(GPIO_PIN_SET)
    /\ mainPc' = "L149"
    /\ UNCHANGED <<directLink, nvic, configurationRegister, i>>
    /\ InitFrame

\* Lines 149-152: then the level of bit i; --i and the loop test.
pirInit_L149 ==
    /\ mainPc = "L149" /\ isrPc = "idle"
    /\ SerialWrite(DataLevel(configurationRegister, i))
    /\ i' = i - 1
    /\ mainPc' = IF i' >= 0 THEN "L145" ELSE "L153"
    /\ UNCHANGED <<directLink, nvic, configurationRegister>>
    /\ InitFrame

\* Line 153: the latch, low.
pirInit_L153 ==
    /\ mainPc = "L153" /\ isrPc = "idle"
    /\ SerialWrite(GPIO_PIN_RESET)
    /\ mainPc' = "L157"
    /\ UNCHANGED <<directLink, nvic, configurationRegister, i>>
    /\ InitFrame

\* Line 157: the call of resetInterrupt.
pirInit_L157 ==
    /\ mainPc = "L157" /\ isrPc = "idle"
    /\ mainPc' = "R172"
    /\ UNCHANGED <<pinVars, configurationRegister, i>>
    /\ InitFrame

\* ------------------------------------------------------- resetInterrupt

ResetPcs == {"R172", "R173", "R183", "R184", "R185"}

\* resetInterrupt toggling the output latch at line 173 instead of writing
\* GPIO_PIN_RESET.
resetInterrupt_Toggle(pc) ==
    CASE pc = "R172" ->
           /\ directLink' = HAL_GPIO_Init(directLink, "GPIO_MODE_OUTPUT_PP",
                                          "GPIO_NOPULL", "GPIO_SPEED_FREQ_LOW")
           /\ UNCHANGED nvic
      [] pc = "R173" ->
           /\ directLink' = HAL_GPIO_WritePin(directLink, 1 - directLink.out)
           /\ UNCHANGED nvic
      [] pc = "R183" ->
           /\ directLink' = HAL_GPIO_Init(directLink, "GPIO_MODE_IT_RISING",
                                          "GPIO_PULLDOWN", "GPIO_SPEED_FREQ_HIGH")
           /\ UNCHANGED nvic
      [] pc = "R184" ->
           /\ nvic' = [nvic EXCEPT !.priority = PIR_DIRECT_LINK_IT_PRIORITY]
           /\ UNCHANGED directLink
      [] pc = "R185" ->
           /\ nvic' = [nvic EXCEPT !.enabled = TRUE]
           /\ UNCHANGED directLink

\* The statement of resetInterrupt at pc, on the direct-link pin and the NVIC.
resetInterrupt(pc) ==
    CASE pc = "R172" ->
           /\ directLink' = HAL_GPIO_Init(directLink, "GPIO_MODE_OUTPUT_PP",
                                          "GPIO_NOPULL", "GPIO_SPEED_FREQ_LOW")
           /\ UNCHANGED nvic
      [] pc = "R173" ->
           /\ directLink' = HAL_GPIO_WritePin(directLink, GPIO_PIN_RESET)
           /\ UNCHANGED nvic
      [] pc = "R183" ->
           /\ directLink' = HAL_GPIO_Init(directLink, "GPIO_MODE_IT_RISING",
                                          "GPIO_PULLDOWN", "GPIO_SPEED_FREQ_HIGH")
           /\ UNCHANGED nvic
      [] pc = "R184" ->
           /\ nvic' = [nvic EXCEPT !.priority = PIR_DIRECT_LINK_IT_PRIORITY]
           /\ UNCHANGED directLink
      [] pc = "R185" ->
           /\ nvic' = [nvic EXCEPT !.enabled = TRUE]
           /\ UNCHANGED directLink

\* The position after the statement at pc; ret is where the caller resumes.
ResetNext(pc, ret) ==
    CASE pc = "R172" -> "R173"
      [] pc = "R173" -> "R183"
      [] pc = "R183" -> "R184"
      [] pc = "R184" -> "R185"
      [] pc = "R185" -> ret

\* resetInterrupt called by pirInit; pirInit then returns true (line 160).
pirInit_resetInterrupt ==
    /\ mainPc \in ResetPcs /\ isrPc = "idle"
    /\ resetInterrupt(mainPc)
    /\ mainPc' = ResetNext(mainPc, "idle")
    /\ UNCHANGED <<serialIn, serialLog, configurationRegister, i>>
    /\ InitFrame

pirInit ==
    \/ pirInit_L41
    \/ pirInit_L42
    \/ pirInit_L47
    \/ pirInit_L48
    \/ pirInit_L49
    \/ pirInit_L52
    \/ pirInit_L144
    \/ pirInit_L145
    \/ pirInit_L147
    \/ pirInit_L149
    \/ pirInit_L153
    \/ pirInit_L157
    \/ pirInit_resetInterrupt

\* --------------------------------------------------------------- pirISR

\* The pin sets the interrupt dispatcher passes to pirISR.
PinSets == {OTHER_Pin, PIR_DIRECT_LINK_Pin, PIR_DIRECT_LINK_Pin + OTHER_Pin}

\* The direct-link line can raise its interrupt: the pin is configured as a
\* rising-edge interrupt input and the interrupt line is enabled.
Armed == directLink.mode = "GPIO_MODE_IT_RISING" /\ nvic.enabled

\* The test of line 326 without the mask: any pin counts as the wake line.
WakeBitSet_AnyPin(pins) == pins # 0

\* Line 326: (pins & PIR_DIRECT_LINK_Pin) != 0.
WakeBitSet(pins) == BitAnd(pins, PIR_DIRECT_LINK_Pin) # 0

\* pirISR without the call of resetInterrupt at line 328.
pirISR_L326_NoReset(pins) ==
    /\ isrPc = "idle"
    /\ isrPins' = pins
    /\ isrTick' = 1 - isrTick
    /\ isrNow' = <<>>
    /\ IF WakeBitSet(pins)
       THEN /\ motionEvents' = motionEvents + 1
            /\ isrPc' = "L329"
            /\ serviced' = serviced + 1
            /\ sinceSend' = sinceSend + 1
            /\ sinceRead' = sinceRead + 1
            /\ sinceZero' = sinceZero + 1
            /\ isrSinceEntry' = isrSinceEntry + 1
       ELSE /\ UNCHANGED <<motionEvents, isrPc, serviced, sinceSend, sinceRead,
                           sinceZero, isrSinceEntry>>
    /\ UNCHANGED <<templateRegistered, mainPc, localVars, pinVars, schedVars,
                   call, sentNow, schedNow, allocFailed, sentSum, readTally,
                   lastReport>>

\* Lines 322-327: pirISR is entered with pins.  With the wake-line bit set it
\* counts the event and goes on to re-arm; otherwise it returns at once.
\* motionEvents is a uint32_t: its increment wraps at 2^32, which no behaviour
\* of at most MaxEvents serviced interrupts comes near.
pirISR_L326(pins) ==
    /\ isrPc = "idle"
    /\ isrPins' = pins
    /\ isrTick' = 1 - isrTick
    /\ isrNow' = <<>>
    /\ IF WakeBitSet(pins)
       THEN /\ motionEvents' = motionEvents + 1
            /\ isrPc' = "R172"
            /\ serviced' = serviced + 1
            /\ sinceSend' = sinceSend + 1
            /\ sinceRead' = sinceRead + 1
            /\ sinceZero' = sinceZero + 1
            /\ isrSinceEntry' = isrSinceEntry + 1
       ELSE /\ UNCHANGED <<motionEvents, isrPc, serviced, sinceSend, sinceRead,
                           sinceZero, isrSinceEntry>>
    /\ UNCHANGED <<templateRegistered, mainPc, localVars, pinVars, schedVars,
                   call, sentNow, schedNow, allocFailed, sentSum, readTally,
                   lastReport>>

\* The dispatcher calls pirISR: with the wake-line bit only when the line
\* raised its interrupt, at most MaxEvents times.
pirISR_call ==
    \E pins \in PinSets :
        /\ BitAnd(pins, PIR_DIRECT_LINK_Pin) # 0 => (Armed /\ serviced < MaxEvents)
        /\ pirISR_L326(pins)

\* Line 328: resetInterrupt called by pirISR.
pirISR_resetInterrupt ==
    /\ isrPc \in ResetPcs
    /\ resetInterrupt(isrPc)
    /\ isrPc' = ResetNext(isrPc, "L329")
    /\ UNCHANGED <<driverVars, mainPc, localVars, isrPins, isrTick, serialIn, serialLog,
                   schedVars, callVars, isrNow, tallyVars>>

ActivateNow == [fn |-> "schedActivateNowFromISR", state |-> STATE_MOTION_CHECK]

\* Lines 329-332 without the schedGetState test: activation always requested.
pirISR_L329_Always ==
    /\ isrPc = "L329"
    /\ isrNow' = Append(isrNow, ActivateNow)
    /\ schedState' = STATE_MOTION_CHECK
    /\ isrPc' = "idle"
    /\ UNCHANGED <<driverVars, mainPc, localVars, isrPins, isrTick, pinVars, completion,
                   awaiting, callVars, tallyVars>>

\* Lines 329-332: activation is requested when the scheduler reports the
\* sensor as deactivated.
pirISR_L329 ==
    /\ isrPc = "L329"
    /\ IF schedState = STATE_DEACTIVATED
       THEN /\ isrNow' = Append(isrNow, ActivateNow)
            /\ schedState' = STATE_MOTION_CHECK
       ELSE UNCHANGED <<isrNow, schedState>>
    /\ isrPc' = "idle"
    /\ UNCHANGED <<driverVars, mainPc, localVars, isrPins, isrTick, pinVars, completion,
                   awaiting, callVars, tallyVars>>

pirISR ==
    \/ pirISR_call
    \/ pirISR_resetInterrupt
    \/ pirISR_L329

\* -------------------------------------------------------------- pirPoll

\* NoteNewRequest and JCreateObject return an object or NULL.
AllocOutcomes == {TRUE, FALSE}

TemplateRequest ==
    [req |-> "note.template", id |-> REQUESTID_TEMPLATE, file |-> SENSORDATA_NOTEFILE,
     body |-> [count |-> TINT32], response |-> TRUE]

NoteAdd(c) ==
    [req |-> "note.add", file |-> SENSORDATA_NOTEFILE, body |-> [count |-> c],
     response |-> FALSE]

\* schedSetCompletionState(sensorID, a, b): its second and third argument.
SetCompletion(a, b) == [fn |-> "schedSetCompletionState", arg2 |-> a, arg3 |-> b]

SetState(a) == [fn |-> "schedSetState", state |-> a]

\* What a step of pirPoll leaves alone whatever it does.
PollFrame ==
    UNCHANGED <<configurationRegister, i, fields, isrPc, isrPins, isrTick, pinVars,
                isrNow, serviced>>

\* The switch of line 193 with a default label in front of case
\* STATE_MOTION_CHECK: every other state is handled as STATE_MOTION_CHECK.
pirPoll_L193_Default(state) ==
    /\ mainPc = "idle" /\ isrPc = "idle"
    /\ pollState' = state
    /\ call' = [op |-> "pirPoll", state |-> state, me |-> motionEvents,
                tr |-> templateRegistered, tested |-> "none",
                tick |-> 1 - call.tick]
    /\ sentNow' = <<>>
    /\ schedNow' = <<>>
    /\ allocFailed' = FALSE
    /\ isrSinceEntry' = 0
    /\ mainPc' = IF state = STATE_ACTIVATED THEN "L196" ELSE "L206"
    /\ UNCHANGED <<driverVars, count, schedVars, sentSum, sinceSend, sinceRead,
                   sinceZero, readTally, lastReport>>
    /\ PollFrame

\* Line 193: pirPoll is called with state; the switch selects the case.
pirPoll_L193(state) ==
    /\ mainPc = "idle" /\ isrPc = "idle"
    /\ pollState' = state
    /\ call' = [op |-> "pirPoll", state |-> state, me |-> motionEvents,
                tr |-> templateRegistered, tested |-> "none",
                tick |-> 1 - call.tick]
    /\ sentNow' = <<>>
    /\ schedNow' = <<>>
    /\ allocFailed' = FALSE
    /\ isrSinceEntry' = 0
    /\ mainPc' = IF state = STATE_ACTIVATED THEN "L196"
                 ELSE IF state = STATE_MOTION_CHECK THEN "L206"
                 ELSE "idle"
    /\ UNCHANGED <<driverVars, count, schedVars, sentSum, sinceSend, sinceRead,
                   sinceZero, readTally, lastReport>>
    /\ PollFrame

\* Line 196: if (!templateRegistered), else fall through to the motion check.
\* Line 196 without the test of templateRegistered: always registers.
pirPoll_L196_Always ==
    /\ mainPc = "L196" /\ isrPc = "idle"
    /\ mainPc' = "L225"
    /\ UNCHANGED <<driverVars, pollState, count, schedVars, callVars, sentSum,
                   sinceSend, sinceRead, sinceZero, readTally, lastReport>>
    /\ PollFrame

pirPoll_L196 ==
    /\ mainPc = "L196" /\ isrPc = "idle"
    /\ mainPc' = IF ~templateRegistered THEN "L225" ELSE "L206"
    /\ UNCHANGED <<driverVars, pollState, count, schedVars, callVars, sentSum,
                   sinceSend, sinceRead, sinceZero, readTally, lastReport>>
    /\ PollFrame

\* An allocation without the early return on NULL: the function goes on.
Allocate_NoReturn(at, next, ret) ==
    /\ mainPc = at /\ isrPc = "idle"
    /\ \E ok \in AllocOutcomes :
          /\ mainPc' = next
          /\ allocFailed' = (allocFailed \/ ~ok)
    /\ UNCHANGED <<driverVars, pollState, count, schedVars, call, sentNow,
                   schedNow, isrSinceEntry, sentSum, sinceSend, sinceRead,
                   sinceZero, readTally, lastReport>>
    /\ PollFrame

\* Lines 225-228 and 231-235 (and 295-298, 301-305): an allocation; on NULL
\* the function returns to the caller at ret, otherwise goes on at next.
Allocate(at, next, ret) ==
    /\ mainPc = at /\ isrPc = "idle"
    /\ \E ok \in AllocOutcomes :
          /\ mainPc' = IF ok THEN next ELSE ret
          /\ allocFailed' = (allocFailed \/ ~ok)
    /\ UNCHANGED <<driverVars, pollState, count, schedVars, call, sentNow,
                   schedNow, isrSinceEntry, sentSum, sinceSend, sinceRead,
                   sinceZero, readTally, lastReport>>
    /\ PollFrame

registerNotefileTemplate_L225 == Allocate("L225", "L231", "L198")

registerNotefileTemplate_L231 == Allocate("L231", "L255", "L198")

\* Lines 241-256: the template request goes to the gateway, response expected.
registerNotefileTemplate_L255 ==
    /\ mainPc = "L255" /\ isrPc = "idle"
    /\ sentNow' = Append(sentNow, TemplateRequest)
    /\ awaiting' = TRUE
    /\ mainPc' = "L198"
    /\ UNCHANGED <<driverVars, pollState, count, schedState, completion, call,
                   schedNow, allocFailed, isrSinceEntry, sentSum, sinceSend,
                   sinceRead, sinceZero, readTally, lastReport>>
    /\ PollFrame

\* A schedSetCompletionState(sensorID, a, b) at line at; pirPoll then returns.
CompletionState(at, a, b) ==
    /\ mainPc = at /\ isrPc = "idle"
    /\ schedNow' = Append(schedNow, SetCompletion(a, b))
    /\ completion' = <<a, b>>
    /\ mainPc' = "idle"
    /\ UNCHANGED <<driverVars, pollState, count, schedState, awaiting, call,
                   sentNow, allocFailed, isrSinceEntry, sentSum, sinceSend,
                   sinceRead, sinceZero, readTally, lastReport>>
    /\ PollFrame

\* Lines 198-200 without the break of line 200: the case falls through.
pirPoll_L198_NoBreak ==
    /\ mainPc = "L198" /\ isrPc = "idle"
    /\ schedNow' = Append(schedNow, SetCompletion(STATE_ACTIVATED, STATE_MOTION_CHECK))
    /\ completion' = <<STATE_ACTIVATED, STATE_MOTION_CHECK>>
    /\ mainPc' = "L206"
    /\ UNCHANGED <<driverVars, pollState, count, schedState, awaiting, call,
                   sentNow, allocFailed, isrSinceEntry, sentSum, sinceSend,
                   sinceRead, sinceZero, readTally, lastReport>>
    /\ PollFrame

\* Lines 198-200.
pirPoll_L198 == CompletionState("L198", STATE_ACTIVATED, STATE_MOTION_CHECK)

\* Line 206 with the test inverted: if (motionEvents != 0).
pirPoll_L206_Inverted ==
    /\ mainPc = "L206" /\ isrPc = "idle"
    /\ mainPc' = IF motionEvents # 0 THEN "L207" ELSE "L295"
    /\ call' = [call EXCEPT !.tested = IF motionEvents = 0 THEN "zero" ELSE "nonzero"]
    /\ UNCHANGED <<driverVars, pollState, count, schedVars, sentNow, schedNow,
                   allocFailed, isrSinceEntry, sentSum, sinceSend, sinceRead,
                   sinceZero, readTally, lastReport>>
    /\ PollFrame

\* Line 206: if (motionEvents == 0).
pirPoll_L206 ==
    /\ mainPc = "L206" /\ isrPc = "idle"
    /\ mainPc' = IF motionEvents = 0 THEN "L207" ELSE "L295"
    /\ call' = [call EXCEPT !.tested = IF motionEvents = 0 THEN "zero" ELSE "nonzero"]
    /\ UNCHANGED <<driverVars, pollState, count, schedVars, sentNow, schedNow,
                   allocFailed, isrSinceEntry, sentSum, sinceSend, sinceRead,
                   sinceZero, readTally, lastReport>>
    /\ PollFrame

\* Lines 207-208: schedSetState(sensorID, STATE_DEACTIVATED, ...).
pirPoll_L207 ==
    /\ mainPc = "L207" /\ isrPc = "idle"
    /\ schedNow' = Append(schedNow, SetState(STATE_DEACTIVATED))
    /\ schedState' = STATE_DEACTIVATED
    /\ mainPc' = "idle"
    /\ UNCHANGED <<driverVars, pollState, count, completion, awaiting, call,
                   sentNow, allocFailed, isrSinceEntry, sentSum, sinceSend,
                   sinceRead, sinceZero, readTally, lastReport>>
    /\ PollFrame

addNote_L295 == Allocate("L295", "L301", "L212")

addNote_L301 == Allocate("L301", "L311", "L212")

\* Line 311: uint32_t count = motionEvents.
addNote_L311 ==
    /\ mainPc = "L311" /\ isrPc = "idle"
    /\ count' = motionEvents
    /\ readTally' = sinceRead
    /\ sinceRead' = 0
    /\ mainPc' = "L312"
    /\ UNCHANGED <<driverVars, pollState, schedVars, callVars, sentSum,
                   sinceSend, sinceZero, lastReport>>
    /\ PollFrame

\* addNote without the reset of line 312: the counter keeps its value.
addNote_L312_NoReset ==
    /\ mainPc = "L312" /\ isrPc = "idle"
    /\ mainPc' = "L317"
    /\ UNCHANGED <<driverVars, pollState, count, schedVars, callVars, sentSum,
                   sinceSend, sinceRead, sinceZero, readTally, lastReport>>
    /\ PollFrame

\* Line 312: motionEvents = 0.
addNote_L312 ==
    /\ mainPc = "L312" /\ isrPc = "idle"
    /\ motionEvents' = 0
    /\ sinceZero' = 0
    /\ mainPc' = "L317"
    /\ UNCHANGED <<templateRegistered, pollState, count, schedVars, callVars,
                   sentSum, sinceSend, sinceRead, readTally, lastReport>>
    /\ PollFrame

\* Lines 313-317 reading motionEvents again instead of count, after the reset.
addNote_L317_AfterReset ==
    /\ mainPc = "L317" /\ isrPc = "idle"
    /\ sentNow' = Append(sentNow, NoteAdd(motionEvents))
    /\ sentSum' = sentSum + motionEvents
    /\ lastReport' = [count |-> motionEvents, sinceSend |-> sinceSend,
                      sinceRead |-> readTally, n |-> 1]
    /\ sinceSend' = 0
    /\ mainPc' = "L212"
    /\ UNCHANGED <<driverVars, pollState, count, schedVars, call, schedNow,
                   allocFailed, isrSinceEntry, sinceRead, sinceZero, readTally>>
    /\ PollFrame

\* Lines 313-317: the report carrying count goes to the gateway, no response
\* expected.
addNote_L317 ==
    /\ mainPc = "L317" /\ isrPc = "idle"
    /\ sentNow' = Append(sentNow, NoteAdd(count))
    /\ sentSum' = sentSum + count
    /\ lastReport' = [count |-> count, sinceSend |-> sinceSend,
                      sinceRead |-> readTally, n |-> 1]
    /\ sinceSend' = 0
    /\ mainPc' = "L212"
    /\ UNCHANGED <<driverVars, pollState, count, schedVars, call, schedNow,
                   allocFailed, isrSinceEntry, sinceRead, sinceZero, readTally>>
    /\ PollFrame

\* Lines 212-214.
pirPoll_L212 == CompletionState("L212", STATE_MOTION_CHECK, STATE_MOTION_CHECK)

\* The scheduler polls the sensor in the state it holds for it, unless it is
\* deactivated or waits for a completion.
pirPoll_call ==
    /\ schedState # STATE_DEACTIVATED
    /\ completion = NoCompletion
    /\ pirPoll_L193(schedState)

pirPoll ==
    \/ pirPoll_call
    \/ pirPoll_L196
    \/ registerNotefileTemplate_L225
    \/ registerNotefileTemplate_L231
    \/ registerNotefileTemplate_L255
    \/ pirPoll_L198
    \/ pirPoll_L206
    \/ pirPoll_L207
    \/ addNote_L295
    \/ addNote_L301
    \/ addNote_L311
    \/ addNote_L312
    \/ addNote_L317
    \/ pirPoll_L212

\* ---------------------------------------------------------- pirResponse

\* The timeout (rsp == NULL) and the responses the gateway can deliver:
\* JGetString gives "" for an absent err, JGetInt gives 0 for an absent id.
Timeout == [null |-> TRUE, err |-> "", id |-> 0]

Responses ==
    {Timeout} \cup [null : {FALSE}, err : {"", "rejected"}, id : {0, REQUESTID_TEMPLATE, 2}]

\* Lines 265-286 with a default label in place of case REQUESTID_TEMPLATE.
pirResponse_templateRegistered_AnyId(rsp) ==
    IF rsp.null THEN templateRegistered
    ELSE IF rsp.err # "" THEN templateRegistered
    ELSE TRUE

\* Lines 265-286 without the error test of lines 271-277.
pirResponse_templateRegistered_NoErrTest(rsp) ==
    IF rsp.null THEN templateRegistered
    ELSE IF rsp.id = REQUESTID_TEMPLATE THEN TRUE
    ELSE templateRegistered

\* Lines 265-286: templateRegistered after pirResponse(rsp).
pirResponse_templateRegistered(rsp) ==
    IF rsp.null THEN templateRegistered
    ELSE IF rsp.err # "" THEN templateRegistered
    ELSE IF rsp.id = REQUESTID_TEMPLATE THEN TRUE
    ELSE templateRegistered

\* Lines 261-288: pirResponse(sensorID, rsp).
pirResponse(rsp) ==
    /\ mainPc = "idle" /\ isrPc = "idle"
    /\ call' = [op |-> "pirResponse", rsp |-> rsp, me |-> motionEvents,
                tr |-> templateRegistered, tick |-> 1 - call.tick]
    /\ sentNow' = <<>>
    /\ schedNow' = <<>>
    /\ allocFailed' = FALSE
    /\ isrSinceEntry' = 0
    /\ templateRegistered' = pirResponse_templateRegistered(rsp)
    /\ awaiting' = FALSE
    /\ UNCHANGED <<motionEvents, mainPc, localVars, isrPc, isrPins, isrTick, pinVars,
                   schedState, completion, isrNow, tallyVars>>

\* The messaging layer delivers the response to the request that expects one,
\* or its timeout.
pirResponse_call ==
    /\ awaiting
    /\ \E rsp \in Responses : pirResponse(rsp)

\* ------------------------------------------------------------ scheduler

\* The scheduler activates the deactivated sensor when its period comes.
schedActivate ==
    /\ mainPc = "idle" /\ isrPc = "idle"
    /\ schedState = STATE_DEACTIVATED
    /\ schedState' = STATE_ACTIVATED
    /\ UNCHANGED <<driverVars, mainPc, localVars, isrPc, isrPins, isrTick, pinVars,
                   completion, awaiting, callVars, isrNow, tallyVars>>

\* The outstanding operation completes: the scheduler takes one of the two
\* states of the pending schedSetCompletionState.
schedComplete ==
    /\ mainPc = "idle" /\ isrPc = "idle"
    /\ completion # NoCompletion
    /\ ~awaiting
    /\ \E s \in {completion[1], completion[2]} : schedState' = s
    /\ completion' = NoCompletion
    /\ UNCHANGED <<driverVars, mainPc, localVars, isrPc, isrPins, isrTick, pinVars,
                   awaiting, callVars, isrNow, tallyVars>>

Next ==
    \/ pirInit
    \/ pirISR
    \/ pirPoll
    \/ pirResponse_call
    \/ schedActivate
    \/ schedComplete

Spec == Init /\ [][Next]_vars

\* State values pirPoll has no case for: the deactivated state and a driver
\* state this driver does not define.
OtherStates == {STATE_DEACTIVATED, STATE_MOTION_CHECK + 1}

\* pirPoll called with a state it has no case for.
pirPoll_other ==
    \E state \in OtherStates : pirPoll_L193(state)

AnyPollNext == Next \/ pirPoll_other

\* The program with pirPoll also called on state values outside its cases.
AnyPollSpec == Init /\ [][AnyPollNext]_vars

\* A step in which no allocation fails.
LiveNext == Next /\ allocFailed' = FALSE

\* The program when allocations succeed, a started pirPoll, pirISR or
\* resetInterrupt runs on, the messaging layer delivers a response or a
\* timeout for a request that expects one, and the scheduler honours a
\* completion request, at the latest by re-invoking the driver in
\* STATE_MOTION_CHECK.  Wake interrupts stop after MaxEvents; the periodic
\* activation may never come.
LiveSpec ==
    /\ Init
    /\ [][LiveNext]_vars
    /\ WF_vars(pirInit_resetInterrupt)
    /\ WF_vars(pirPoll /\ allocFailed' = FALSE)
    /\ WF_vars(pirISR_resetInterrupt \/ pirISR_L329)
    /\ WF_vars(pirResponse_call)
    /\ WF_vars(schedComplete)
    /\ SF_vars(schedComplete /\ schedState' = STATE_MOTION_CHECK)

\* Field values pirInit could be built with: the initialiser of each local
\* and a value wider than the field (all bits set, or only the bit above it).
FieldInputs ==
    [threshold : {threshold, 511}, blindTime : {blindTime, 31},
     pulseCounter : {pulseCounter, 7}, windowTime : {windowTime, 4},
     operationModes : {operationModes, 7}, signalSource : {signalSource, 7},
     reserved1 : {reserved1, 7}, hpfCutoff : {hpfCutoff, 3},
     reserved2 : {reserved2, 3}, pulseDetectionMode : {pulseDetectionMode, 3}]

ConfigInit == InitState /\ fields \in FieldInputs

\* pirInit run on every field input.
ConfigSpec == ConfigInit /\ [][pirInit]_vars

\* ---------------------------------------------------------------- claims

\* The positions inside addNote.
AddNotePcs == {"L295", "L301", "L311", "L312", "L317"}

\* The note.add reports among the requests of the current call.
Reports(sent) == {k \in DOMAIN sent : sent[k].req = "note.add"}

\* C1: addNote reads and zeroes motionEvents atomically with respect to
\* pirISR, so no serviced wake interrupt is dropped: whenever no addNote call
\* is mid-execution, the wake interrupts serviced equal the sum of the counts
\* of the reports sent plus the current motionEvents.
C1_NoEventDropped ==
    mainPc \notin AddNotePcs => serviced = sentSum + motionEvents

\* C2 as stated: reports never overcount, and each report's count is at most
\* the number of wake interrupts serviced since the previous report was sent.
C2_CountSinceLastSend ==
    /\ sentSum <= serviced
    /\ lastReport.n = 1 => lastReport.count <= lastReport.sinceSend

\* C2 amended: the sum of the counts of the reports sent never exceeds the
\* number of wake interrupts serviced (also counting what motionEvents still
\* holds), and each report's count is at most the number of wake interrupts
\* serviced since addNote read the counter for the previous report.
C2_NoOvercount ==
    /\ sentSum <= serviced
    /\ mainPc \notin AddNotePcs => sentSum + motionEvents <= serviced
    /\ lastReport.n = 1 => lastReport.count <= lastReport.sinceRead

\* A report went out although pirISR ran between the reset of the previous
\* addNote and its send: its count exceeds what was serviced since that send.
C2_Witness ==
    /\ lastReport.n = 1
    /\ lastReport.count > lastReport.sinceSend
    /\ sentSum = 2
    /\ mainPc = "idle"

\* C3: a note.add report is sent only in a state where templateRegistered is
\* true, whatever the sequence of pirPoll, pirISR and pirResponse events.
C3_ReportsGated ==
    Reports(sentNow) # {} => templateRegistered

\* The step is a call of pirResponse.
ResponseStep == call'.tick # call.tick /\ call'.op = "pirResponse"

\* pirPoll has returned from a call with state st.
PollReturned(st) == mainPc = "idle" /\ call.op = "pirPoll" /\ call.state = st

\* C4: templateRegistered changes from false to true only inside pirResponse,
\* and only for a non-null response with an empty error string and the id
\* REQUESTID_TEMPLATE; a response with another id or none leaves
\* templateRegistered and motionEvents unchanged; nothing sets
\* templateRegistered back to false.
C4_RegisteredOnlyByResponse ==
    [][ /\ templateRegistered' # templateRegistered =>
             /\ ~templateRegistered /\ templateRegistered'
             /\ ResponseStep
             /\ ~call'.rsp.null
             /\ call'.rsp.err = ""
             /\ call'.rsp.id = REQUESTID_TEMPLATE
        /\ (ResponseStep /\ ~call'.rsp.null /\ call'.rsp.id # REQUESTID_TEMPLATE) =>
             UNCHANGED <<templateRegistered, motionEvents>>
        /\ templateRegistered => templateRegistered' ]_vars

\* pirResponse has just registered the template.
C4_Witness ==
    /\ call.op = "pirResponse"
    /\ ~call.tr
    /\ templateRegistered
    /\ call.rsp.id = REQUESTID_TEMPLATE

\* C5: pirResponse called with a null response, or with one whose error
\* string is non-empty (whatever its id), returns and leaves templateRegistered
\* and motionEvents unchanged, sends no request and makes no scheduler request.
C5_TimeoutAndErrorIgnored ==
    [][ (ResponseStep /\ (call'.rsp.null \/ call'.rsp.err # "")) =>
             /\ UNCHANGED <<templateRegistered, motionEvents>>
             /\ sentNow' = <<>>
             /\ schedNow' = <<>>
             /\ mainPc' = "idle" ]_vars

\* An error response carrying the template id was delivered while events
\* were pending, and the template is still unregistered.
C5_Witness ==
    /\ call.op = "pirResponse"
    /\ call.rsp.err # ""
    /\ call.rsp.id = REQUESTID_TEMPLATE
    /\ ~templateRegistered
    /\ motionEvents > 0

\* C6 as stated: pirPoll called with STATE_ACTIVATED while templateRegistered
\* is false sends exactly one note.template request with id REQUESTID_TEMPLATE,
\* requests completion state STATE_MOTION_CHECK, sends no note.add report and
\* leaves motionEvents unchanged.
C6_AlwaysOneTemplateRequest ==
    (PollReturned(STATE_ACTIVATED) /\ ~call.tr) =>
        /\ sentNow = <<TemplateRequest>>
        /\ Len(schedNow) = 1
        /\ schedNow[1].fn = "schedSetCompletionState"
        /\ STATE_MOTION_CHECK \in {schedNow[1].arg2, schedNow[1].arg3}
        /\ motionEvents = call.me + isrSinceEntry

\* C6 amended: such a call sends exactly one note.template request with id
\* REQUESTID_TEMPLATE when both allocations of registerNotefileTemplate
\* succeed and none when one fails; either way it calls
\* schedSetCompletionState(sensorID, STATE_ACTIVATED, STATE_MOTION_CHECK) once
\* and does not fall through: it never enters the motion check, sends no
\* note.add report and leaves motionEvents to pirISR alone.
C6_TemplateRequest ==
    (call.op = "pirPoll" /\ call.state = STATE_ACTIVATED /\ ~call.tr) =>
        /\ mainPc \in {"L196", "L225", "L231", "L255", "L198", "idle"}
        /\ Reports(sentNow) = {}
        /\ motionEvents = call.me + isrSinceEntry
        /\ mainPc = "idle" =>
             /\ sentNow = IF allocFailed THEN <<>> ELSE <<TemplateRequest>>
             /\ schedNow = <<SetCompletion(STATE_ACTIVATED, STATE_MOTION_CHECK)>>

\* The call returned having sent the template request although events were
\* pending when it began.
C6_Witness ==
    /\ PollReturned(STATE_ACTIVATED)
    /\ ~call.tr
    /\ call.me > 0
    /\ sentNow = <<TemplateRequest>>

\* C7: pirPoll called with STATE_MOTION_CHECK that finds motionEvents 0
\* requests STATE_DEACTIVATED, sends nothing to the gateway, requests no
\* completion state, and leaves motionEvents and templateRegistered unchanged.
C7_IdleDeactivates ==
    (PollReturned(STATE_MOTION_CHECK) /\ call.tested = "zero") =>
        /\ schedNow = <<SetState(STATE_DEACTIVATED)>>
        /\ sentNow = <<>>
        /\ motionEvents = call.me + isrSinceEntry
        /\ templateRegistered = call.tr

\* The call returned with the sensor deactivated and nothing sent.
C7_Witness ==
    /\ PollReturned(STATE_MOTION_CHECK)
    /\ call.tested = "zero"
    /\ isrSinceEntry = 0
    /\ schedState = STATE_DEACTIVATED

\* C8 as stated: N wake interrupts with no report in between raise
\* motionEvents by N; an unpreempted pirPoll in STATE_MOTION_CHECK then sends
\* exactly one note.add report with that count, leaves motionEvents at 0 and
\* requests completion state STATE_MOTION_CHECK again.
C8_AlwaysReportsCount ==
    /\ motionEvents = sinceZero
    /\ (PollReturned(STATE_MOTION_CHECK) /\ call.me > 0 /\ isrSinceEntry = 0) =>
           /\ sentNow = <<NoteAdd(call.me)>>
           /\ motionEvents = 0
           /\ schedNow = <<SetCompletion(STATE_MOTION_CHECK, STATE_MOTION_CHECK)>>

\* C8 amended: the same, provided both allocations of addNote succeed; when
\* one fails the call sends no report and motionEvents keeps its value, and
\* completion state STATE_MOTION_CHECK is requested all the same.
C8_ReportsCount ==
    /\ motionEvents = sinceZero
    /\ (PollReturned(STATE_MOTION_CHECK) /\ call.me > 0 /\ isrSinceEntry = 0) =>
           /\ sentNow = IF allocFailed THEN <<>> ELSE <<NoteAdd(call.me)>>
           /\ motionEvents = IF allocFailed THEN call.me ELSE 0
           /\ schedNow = <<SetCompletion(STATE_MOTION_CHECK, STATE_MOTION_CHECK)>>

\* Two events were counted and an unpreempted poll reported both.
C8_Witness ==
    /\ PollReturned(STATE_MOTION_CHECK)
    /\ call.me = 2
    /\ isrSinceEntry = 0
    /\ sentNow = <<NoteAdd(2)>>
    /\ motionEvents = 0

\* C9: pirISR called with a pin set without the PIR_DIRECT_LINK_Pin bit has
\* no effect: motionEvents, templateRegistered, the direct-link pin
\* configuration and the scheduler state are unchanged and no activation is
\* requested.
C9_OtherPinsIgnored ==
    [][ (isrTick' # isrTick /\ BitAnd(isrPins', PIR_DIRECT_LINK_Pin) = 0) =>
             /\ UNCHANGED <<motionEvents, templateRegistered, directLink, nvic,
                            schedState, completion>>
             /\ isrNow' = <<>>
             /\ isrPc' = "idle" ]_vars

\* pirISR was called for another pin while the wake line was armed, the
\* sensor deactivated and an event pending.
C9_Witness ==
    /\ isrPins = OTHER_Pin
    /\ isrPc = "idle"
    /\ Armed
    /\ motionEvents = 1
    /\ schedState = STATE_DEACTIVATED

\* C10: pirISR with the wake-line bit set requests activation into
\* STATE_MOTION_CHECK exactly when the scheduler reports STATE_DEACTIVATED at
\* that moment and otherwise makes no scheduler request; pirPoll and
\* pirResponse never request activation.
C10_ActivationOnlyFromISR ==
    /\ [][ (isrPc = "L329" /\ isrPc' # "L329") =>
             isrNow' = IF schedState = STATE_DEACTIVATED THEN <<ActivateNow>> ELSE <<>> ]_vars
    /\ [](isrPc # "idle" => isrNow = <<>>)
    /\ [](\A k \in DOMAIN schedNow : schedNow[k].fn # ActivateNow.fn)

\* pirISR requested the activation of the deactivated sensor.
C10_Witness ==
    /\ isrNow = <<ActivateNow>>
    /\ isrPc = "idle"
    /\ schedState = STATE_MOTION_CHECK
    /\ motionEvents = 1

\* C11: when the allocation of the request or of the body fails inside
\* addNote or registerNotefileTemplate, the send attempt is aborted without
\* side effects: the invocation hands no request to the gateway,
\* motionEvents keeps its value (only pirISR adds to it) and
\* templateRegistered is unchanged.
C11_AllocFailureNoSideEffect ==
    (call.op = "pirPoll" /\ allocFailed) =>
        /\ sentNow = <<>>
        /\ awaiting = FALSE
        /\ motionEvents = call.me + isrSinceEntry
        /\ templateRegistered = call.tr
        /\ mainPc \in {"L198", "L212", "idle"}

\* addNote gave up on a failed allocation while events were pending.
C11_Witness ==
    /\ PollReturned(STATE_MOTION_CHECK)
    /\ allocFailed
    /\ call.tested = "nonzero"
    /\ motionEvents = 2

\* The layout documented at lines 53-133: field, lowest bit, width.
Layout ==
    << [name |-> "threshold", off |-> 17, width |-> 8],
       [name |-> "blindTime", off |-> 13, width |-> 4],
       [name |-> "pulseCounter", off |-> 11, width |-> 2],
       [name |-> "windowTime", off |-> 9, width |-> 2],
       [name |-> "operationModes", off |-> 7, width |-> 2],
       [name |-> "signalSource", off |-> 5, width |-> 2],
       [name |-> "reserved1", off |-> 3, width |-> 2],
       [name |-> "hpfCutoff", off |-> 2, width |-> 1],
       [name |-> "reserved2", off |-> 1, width |-> 1],
       [name |-> "pulseDetectionMode", off |-> 0, width |-> 1] >>

\* The width bits of reg from bit off upwards, read by division.
FieldOf(reg, off, width) == (reg \div Pow2(off)) % Pow2(width)

\* pirInit has assembled configurationRegister.
ConfigDone == mainPc \notin {"L32", "L42", "L47", "L48", "L49", "L52"}

\* C12: the configuration word holds each field, masked to its width, at its
\* offset; the fields occupy pairwise disjoint bit ranges that cover exactly
\* bits 24..0, so the word is below 2^25; for the fixed initialisers
\* (24, 2, 2, 3, 2, 0, 2, 0, 0, 0) the word is 0x305710.
C12_ConfigWordLayout ==
    /\ \A b \in 0..31 :
          Cardinality({k \in DOMAIN Layout :
                         Layout[k].off <= b /\ b < Layout[k].off + Layout[k].width})
            = IF b <= 24 THEN 1 ELSE 0
    /\ ConfigDone =>
          /\ \A k \in DOMAIN Layout :
                FieldOf(configurationRegister, Layout[k].off, Layout[k].width)
                  = fields[Layout[k].name] % Pow2(Layout[k].width)
          /\ configurationRegister >= 0
          /\ configurationRegister < Pow2(25)
          /\ fields = FixedFields => configurationRegister = 3168016

\* Every field but the window time was given more bits than its width, all
\* set, the window time only the bit above its width: the word is 25 ones
\* less bits 10 and 9.
C12_Witness ==
    /\ ConfigDone
    /\ fields = [threshold |-> 511, blindTime |-> 31, pulseCounter |-> 7,
                 windowTime |-> 4, operationModes |-> 7, signalSource |-> 7,
                 reserved1 |-> 7, hpfCutoff |-> 3, reserved2 |-> 3,
                 pulseDetectionMode |-> 3]
    /\ configurationRegister = 33552895
    /\ mainPc = "idle"

\* Writes of a whole transmission: the start level, 25 frames of three, the
\* latch.
StreamLen == 1 + 3 * 25 + 1

\* The level the claim gives the n-th write of the transmission of reg: low
\* at the start, then frame k = 0..24 as low, high, bit 24 - k, then low.
ExpectedLevel(reg, n) ==
    IF n = 1 \/ n = StreamLen THEN 0
    ELSE LET k == (n - 2) \div 3
             p == (n - 2) % 3
         IN  IF p = 0 THEN 0
             ELSE IF p = 1 THEN 1
             ELSE (reg \div Pow2(24 - k)) % 2

\* C13: pirInit writes the serial-in pin in this order and nothing else: low
\* (start), then exactly 25 frames, each low, high, data level, the data
\* level of frame k being bit 24 - k of the configuration word, then one
\* final low (latch); resetInterrupt runs only after the latch.
C13_SerialStream ==
    /\ Len(serialLog) <= StreamLen
    /\ \A n \in DOMAIN serialLog :
          serialLog[n] = ExpectedLevel(configurationRegister, n)
    /\ serialLog # <<>> => serialIn.out = serialLog[Len(serialLog)]
    /\ (mainPc \in ResetPcs \cup {"idle"}) => Len(serialLog) = StreamLen
    /\ directLink.mode \in {"GPIO_MODE_OUTPUT_PP", "GPIO_MODE_IT_RISING"} =>
          Len(serialLog) = StreamLen
    /\ mainPc = "L157" => Len(serialLog) = StreamLen /\ i = -1

\* pirInit has returned after sending the word of the fixed initialisers:
\* bits 21, 20, 14, 12, 10, 9, 8 and 4 set.
C13_Witness ==
    /\ mainPc = "idle"
    /\ fields = FixedFields
    /\ Len(serialLog) = StreamLen
    /\ {k \in 0..24 : serialLog[4 + 3 * k] = 1} = {3, 4, 10, 12, 14, 15, 16, 20}
    /\ directLink.mode = "GPIO_MODE_IT_RISING"

\* Positions of the normal context inside pirInit.
InitPcs ==
    {"L32", "L42", "L47", "L48", "L49", "L52", "L144", "L145", "L147", "L149",
     "L153", "L157"} \cup ResetPcs

\* What resetInterrupt leaves behind (lines 173, 179-185).
ResetDone ==
    /\ directLink = [mode |-> "GPIO_MODE_IT_RISING", pull |-> "GPIO_PULLDOWN",
                     speed |-> "GPIO_SPEED_FREQ_HIGH", out |-> GPIO_PIN_RESET]
    /\ nvic = [priority |-> PIR_DIRECT_LINK_IT_PRIORITY, enabled |-> TRUE]

\* C14: resetInterrupt is idempotent: after the first call (pirInit's) and
\* after every further call (one per serviced wake interrupt), whenever no
\* call is in progress, the direct-link pin has the same final
\* configuration (rising-edge interrupt input, pulled down, high speed), the
\* same interrupt priority, and the interrupt is enabled.
C14_ResetIdempotent ==
    /\ (mainPc \notin InitPcs /\ isrPc \notin ResetPcs) => ResetDone
    /\ (mainPc = "idle" /\ isrPc = "R172") => ResetDone

\* resetInterrupt has returned for the third time: once to pirInit, twice
\* to pirISR.
C14_Witness ==
    /\ isrPc = "L329"
    /\ serviced = 2
    /\ mainPc \notin InitPcs
    /\ ResetDone

\* The direct-link pin is a push-pull output driving low.
DrivenLow == directLink.mode = "GPIO_MODE_OUTPUT_PP" /\ directLink.out = GPIO_PIN_RESET

\* The direct-link pin is a pulled-down rising-edge interrupt input.
RisingInput ==
    directLink.mode = "GPIO_MODE_IT_RISING" /\ directLink.pull = "GPIO_PULLDOWN"

\* C15: every pirISR entered with the wake-line bit set re-arms the sensor
\* before it returns: it runs resetInterrupt, which first makes the
\* direct-link pin an output driving low and only afterwards a pulled-down
\* rising-edge interrupt input; so whenever pirInit has returned and pirISR
\* is not executing, the pin is a rising-edge interrupt input and its
\* interrupt is enabled.
C15_RearmBeforeReturn ==
    /\ [][ (isrTick' # isrTick /\ WakeBitSet(isrPins')) => isrPc' = "R172" ]_vars
    /\ [][ (isrPc # "idle" /\ isrPc' = "idle") =>
             (isrPc = "L329" /\ RisingInput /\ nvic.enabled /\ UNCHANGED pinVars) ]_vars
    /\ [][ (directLink.mode # "GPIO_MODE_IT_RISING" /\ RisingInput') => DrivenLow ]_vars
    /\ [](isrPc = "R183" => DrivenLow)
    /\ [](isrPc \in {"R184", "R185", "L329"} => RisingInput)
    /\ []((mainPc \notin InitPcs /\ isrPc = "idle") => (RisingInput /\ nvic.enabled))

\* pirISR has serviced a wake interrupt, re-armed the line and returned.
C15_Witness ==
    /\ isrPc = "idle"
    /\ WakeBitSet(isrPins)
    /\ serviced = 1
    /\ mainPc \notin InitPcs
    /\ RisingInput /\ nvic.enabled

\* What a pirPoll that found the template registered at entry has done when
\* it returns, told from the outcome of the test of line 206 and of the
\* allocations alone: the state it was called with plays no part.
RegisteredPollEffects ==
    CASE call.tested = "zero" ->
           /\ sentNow = <<>>
           /\ schedNow = <<SetState(STATE_DEACTIVATED)>>
           /\ motionEvents = call.me + isrSinceEntry
      [] call.tested = "nonzero" /\ allocFailed ->
           /\ sentNow = <<>>
           /\ schedNow = <<SetCompletion(STATE_MOTION_CHECK, STATE_MOTION_CHECK)>>
           /\ motionEvents = call.me + isrSinceEntry
      [] call.tested = "nonzero" /\ ~allocFailed ->
           /\ sentNow = <<NoteAdd(lastReport.count)>>
           /\ schedNow = <<SetCompletion(STATE_MOTION_CHECK, STATE_MOTION_CHECK)>>
           /\ motionEvents = sinceZero
      [] OTHER -> FALSE

\* C16: once templateRegistered is true pirPoll sends no note.template any
\* more: pirPoll(STATE_ACTIVATED) then falls through to line 206, where
\* pirPoll(STATE_MOTION_CHECK) starts, having changed nothing, and has the
\* same effects (requests sent, change of the counter, scheduler request)
\* as pirPoll(STATE_MOTION_CHECK).
C16_RegisteredActivatedIsMotionCheck ==
    /\ [][ (sentNow' # sentNow /\ templateRegistered) =>
             \A k \in DOMAIN sentNow' : sentNow'[k].req # TemplateRequest.req ]_vars
    /\ [][ (mainPc = "L196" /\ mainPc' # "L196" /\ templateRegistered) =>
             /\ mainPc' = "L206"
             /\ UNCHANGED <<driverVars, localVars, isrPc, isrPins, isrTick, pinVars,
                            schedVars, callVars, isrNow, tallyVars>> ]_vars
    /\ [][ (call'.tick # call.tick /\ call'.op = "pirPoll"
              /\ call'.state = STATE_MOTION_CHECK) =>
             /\ mainPc' = "L206"
             /\ UNCHANGED <<driverVars, schedVars, tallyVars, pinVars>> ]_vars
    /\ []((call.op = "pirPoll" /\ call.tr /\ mainPc = "idle"
             /\ call.state \in {STATE_ACTIVATED, STATE_MOTION_CHECK})
            => RegisteredPollEffects)

\* pirPoll(STATE_ACTIVATED) with the template registered has sent a report
\* and asked for the completion state STATE_MOTION_CHECK.
C16_Witness ==
    /\ PollReturned(STATE_ACTIVATED)
    /\ call.tr
    /\ call.me = 2
    /\ sentNow = <<NoteAdd(2)>>
    /\ schedNow = <<SetCompletion(STATE_MOTION_CHECK, STATE_MOTION_CHECK)>>
    /\ motionEvents = 0

\* C17: an invocation of pirPoll for STATE_ACTIVATED or STATE_MOTION_CHECK
\* hands at most one request to the gateway and makes exactly one scheduler
\* request, a completion-state request or a deactivation, never both; for
\* any other state value it sends nothing, makes no scheduler request and
\* changes no driver state.
C17_OneStepPerPoll ==
    /\ [](call.op = "pirPoll" => (Len(sentNow) <= 1 /\ Len(schedNow) <= 1))
    /\ []((call.op = "pirPoll" /\ mainPc = "idle"
             /\ call.state \in {STATE_ACTIVATED, STATE_MOTION_CHECK}) =>
            /\ Len(schedNow) = 1
            /\ \/ schedNow[1] = SetState(STATE_DEACTIVATED)
               \/ schedNow[1] = SetCompletion(STATE_ACTIVATED, STATE_MOTION_CHECK)
               \/ schedNow[1] = SetCompletion(STATE_MOTION_CHECK, STATE_MOTION_CHECK))
    /\ []((call.op = "pirPoll"
             /\ call.state \notin {STATE_ACTIVATED, STATE_MOTION_CHECK}) =>
            /\ mainPc = "idle"
            /\ sentNow = <<>> /\ schedNow = <<>>
            /\ templateRegistered = call.tr
            /\ motionEvents = call.me + isrSinceEntry)
    /\ [][ (call'.tick # call.tick /\ call'.op = "pirPoll"
              /\ call'.state \notin {STATE_ACTIVATED, STATE_MOTION_CHECK}) =>
             UNCHANGED <<driverVars, mainPc, count, configurationRegister, i, fields,
                         pinVars, schedVars, tallyVars>> ]_vars

\* pirPoll was called with a state it has no case for while an event was
\* pending and returned.
C17_Witness ==
    /\ mainPc = "idle"
    /\ call.op = "pirPoll"
    /\ call.state = STATE_MOTION_CHECK + 1
    /\ call.me = 1
    /\ motionEvents = 1
    /\ schedState = STATE_MOTION_CHECK

\* C18: no counted event is stranded while the sensor is dormant: with
\* pirISR preempting pirPoll at any statement boundary, in every state where
\* the scheduler holds STATE_DEACTIVATED because pirPoll requested it (and
\* pirISR is not under way to its scheduler test), motionEvents is 0;
\* otherwise an activation into STATE_MOTION_CHECK has been requested and
\* the scheduler no longer holds STATE_DEACTIVATED.
C18_NoEventStranded ==
    ( /\ schedState = STATE_DEACTIVATED
      /\ call.op = "pirPoll"
      /\ schedNow = <<SetState(STATE_DEACTIVATED)>>
      /\ mainPc = "idle"
      /\ isrPc = "idle" )
    => motionEvents = 0

\* C19: pirPoll asks the scheduler for a completion state only when a
\* request was handed to the gateway in the same invocation: when
\* registerNotefileTemplate or addNote gives up on a failed allocation,
\* pirPoll requests no completion state.
C19_CompletionOnlyAfterSend ==
    ( /\ call.op = "pirPoll"
      /\ \E k \in DOMAIN schedNow : schedNow[k].fn = "schedSetCompletionState" )
    => (sentNow # <<>> /\ ~allocFailed)

\* No further wake interrupt will arrive.
InterruptsStopped == serviced = MaxEvents /\ isrPc = "idle"

\* The MotionCheck loop terminates: once wake interrupts have stopped, from
\* any state in which the scheduler holds STATE_ACTIVATED or
\* STATE_MOTION_CHECK the driver gets to request STATE_DEACTIVATED.
MotionCheckTerminates ==
    (InterruptsStopped /\ schedState \in {STATE_ACTIVATED, STATE_MOTION_CHECK})
      ~> (schedState = STATE_DEACTIVATED /\ schedNow = <<SetState(STATE_DEACTIVATED)>>)

\* C20: when wake interrupts have stopped, allocations succeed and the
\* scheduler honours every request, the driver requests STATE_DEACTIVATED,
\* and at that point motionEvents is 0 and every event counted before has
\* been carried by some report: the counts reported add up to the wake
\* interrupts serviced.
C20_DeactivatedAllReported ==
    ( /\ call.op = "pirPoll"
      /\ mainPc = "idle"
      /\ schedNow = <<SetState(STATE_DEACTIVATED)>>
      /\ isrSinceEntry = 0 )
    => (motionEvents = 0 /\ sentSum = serviced)

====
